---- MODULE Spec2Model ----
(***************************************************************************)
(* A model of packages/utils.py of archweb: the package-group aggregation  *)
(* (get_group_info), the cross-architecture difference detector            *)
(* (get_differences_info), the signoff quorum (approved_by_signoffs), the  *)
(* PackageSignoffGroup object and the group builder (get_signoff_groups).  *)
(*                                                                         *)
(* Each component has a specification of its own (SpecGroups, SpecDiff,    *)
(* SpecSignoff, SpecBuild); the variables of the other components stay at  *)
(* their idle values.                                                      *)
(***************************************************************************)
EXTENDS Integers, Sequences, FiniteSets, TLC

VARIABLES
    pc,               \* position of the modelled call: "idle", "done", ...
    raw_groups,       \* get_group_info: rows of the PackageGroup query
    include_arches,   \* get_group_info: the argument ({} stands for None / empty)
    groups,           \* get_group_info: the returned list
    packages,         \* the package table (get_differences_info, get_signoff_groups)
    arch_a,           \* get_differences_info: first argument
    arch_b,           \* get_differences_info: second argument
    missing,          \* ids of rows' first column that in_bulk did not return
    differences,      \* get_differences_info: the returned list
    group,            \* the PackageSignoffGroup under study, or NoGroup
    raised,           \* the exception the modelled call raised, or NoError
    revoked,          \* ids of the Signoff objects whose revoked flag is set
    all_signoffs,     \* the arguments of the find_signoffs calls on group
    repos,            \* get_signoff_groups: the argument ({} stands for None)
    signoff_groups    \* get_signoff_groups: the returned list

vars == <<pc, raw_groups, include_arches, groups, packages, arch_a, arch_b,
          missing, differences, group, raised, revoked, all_signoffs,
          repos, signoff_groups>>

groupVars == <<raw_groups, include_arches, groups>>
diffVars == <<arch_a, arch_b, missing, differences>>
signoffVars == <<group, revoked, all_signoffs>>
buildVars == <<repos, signoff_groups>>

\* Python's None where an object is expected, and SQL's NULL id
None == [none |-> TRUE]
NullId == <<>>
NoArch == "none"
\* no PackageSignoffGroup has been constructed
NoGroup == [constructed |-> FALSE]
\* the modelled call raised nothing
NoError == "NoError"
\* find_signoffs has not been called on the group
NoCalls == [calls |-> "none", signoffs |-> {}]

(***************************************************************************)
(* Strings are compared as Python compares them; StrOrder lists every      *)
(* string the model sorts by in ascending order.                           *)
(***************************************************************************)
StrOrder ==
    <<"any", "base", "community-testing", "core", "devel", "extra", "gcc",
      "gcc-fortran", "gcc-libs", "gdb", "i686", "testing", "x86_64">>

Rank(s) == CHOOSE i \in 1..Len(StrOrder) : StrOrder[i] = s

\* cmp of two (string, string) keys
KeyLess(k1, k2) ==
    \/ Rank(k1[1]) < Rank(k2[1])
    \/ Rank(k1[1]) = Rank(k2[1]) /\ Rank(k1[2]) < Rank(k2[2])

\* the key functions of the two sorts: itemgetter('name', 'arch') for a group
\* entry, (a.repo.name, a.pkgname) for a Difference
SortKey(e) ==
    IF "pkg_a" \in DOMAIN e THEN <<e.repo, e.pkgname>> ELSE <<e.name, e.arch>>

\* list.sort / sorted with a key: stable, an element goes after its equals
RECURSIVE InsertSorted(_, _)
InsertSorted(x, s) ==
    IF s = <<>> THEN <<x>>
    ELSE IF KeyLess(SortKey(x), SortKey(Head(s))) THEN <<x>> \o s
    ELSE <<Head(s)>> \o InsertSorted(x, Tail(s))

RECURSIVE Sorted(_)
Sorted(s) ==
    IF s = <<>> THEN <<>>
    ELSE InsertSorted(s[Len(s)], Sorted(SubSeq(s, 1, Len(s) - 1)))

\* some enumeration of a finite set (a dict's or a query's iteration order)
RECURSIVE SetToSeq(_)
SetToSeq(S) ==
    IF S = {} THEN <<>>
    ELSE LET x == CHOOSE y \in S : TRUE IN <<x>> \o SetToSeq(S \ {x})

Range(s) == {s[i] : i \in 1..Len(s)}

(***************************************************************************)
(* get_group_info                                                          *)
(***************************************************************************)
MaxRows == 3
MaxCount == 2
MaxTime == 2

GroupNames == {"base", "devel"}
GroupArches == {"any", "i686", "x86_64"}

\* one row of the annotated values_list: (name, arch name, cnt, last_update)
RawRows == GroupNames \X GroupArches \X (1..MaxCount) \X (1..MaxTime)

\* lines 19-23: bucket the rows by architecture, then by group name
GroupMapping(raw) ==
    [a \in {grp[2] : grp \in raw} |->
        [n \in {grp[1] : grp \in {g \in raw : g[2] = a}} |->
            LET grp == CHOOSE g \in raw : g[1] = n /\ g[2] = a
            IN  [name |-> grp[1], arch |-> grp[2],
                 count |-> grp[3], last_update |-> grp[4]]]]

\* PromoteAny with line 34 assigning the 'any' count instead of adding it
PromoteAny_AssignCount(arch, arch_groups, any_groups) ==
    [n \in DOMAIN arch_groups \cup DOMAIN any_groups |->
        IF n \notin DOMAIN any_groups THEN arch_groups[n]
        ELSE IF n \in DOMAIN arch_groups
        THEN LET found == arch_groups[n]
                 grp == any_groups[n]
             IN  [found EXCEPT
                    !.count = grp.count,
                    !.last_update =
                        IF grp.last_update > @ THEN grp.last_update ELSE @]
        ELSE [any_groups[n] EXCEPT !.arch = arch]]

\* lines 31-41: fold every 'any' group into one architecture's groups
PromoteAny(arch, arch_groups, any_groups) ==
    [n \in DOMAIN arch_groups \cup DOMAIN any_groups |->
        IF n \notin DOMAIN any_groups THEN arch_groups[n]
        ELSE IF n \in DOMAIN arch_groups
        THEN LET found == arch_groups[n]
                 grp == any_groups[n]
             IN  [found EXCEPT
                    !.count = @ + grp.count,
                    !.last_update =
                        IF grp.last_update > @ THEN grp.last_update ELSE @]
        ELSE [any_groups[n] EXCEPT !.arch = arch]]

\* lines 27-41
Aggregated(group_mapping) ==
    IF "any" \in DOMAIN group_mapping
    THEN [a \in DOMAIN group_mapping \ {"any"} |->
            PromoteAny(a, group_mapping[a], group_mapping["any"])]
    ELSE group_mapping

\* lines 45-49: flatten, keep the included architectures, sort by (name, arch)
get_group_info(raw, include) ==
    LET group_mapping == Aggregated(GroupMapping(raw))
        kept == {key \in DOMAIN group_mapping : include = {} \/ key \in include}
        entries == UNION {{group_mapping[key][n] : n \in DOMAIN group_mapping[key]}
                          : key \in kept}
    IN  Sorted(SetToSeq(entries))

\* the PackageGroup table gains the memberships of one more (name, arch)
AddGroupRow(row) ==
    /\ pc = "idle"
    /\ Cardinality(raw_groups) < MaxRows
    /\ \A g \in raw_groups : <<g[1], g[2]>> # <<row[1], row[2]>>
    /\ raw_groups' = raw_groups \cup {row}
    /\ UNCHANGED <<pc, include_arches, groups, packages, diffVars, signoffVars,
                   raised, buildVars>>

\* a call get_group_info(include_arches)
GetGroupInfo(include) ==
    /\ pc = "idle"
    /\ pc' = "done"
    /\ include_arches' = include
    /\ groups' = get_group_info(raw_groups, include)
    /\ UNCHANGED <<raw_groups, packages, diffVars, signoffVars, raised,
                   buildVars>>

InitGroups ==
    /\ pc = "idle"
    /\ raw_groups = {}
    /\ include_arches = {}
    /\ groups = <<>>
    /\ packages = {}
    /\ arch_a = NoArch /\ arch_b = NoArch /\ missing = {} /\ differences = <<>>
    /\ group = NoGroup /\ raised = NoError /\ revoked = {}
    /\ all_signoffs = NoCalls
    /\ repos = {} /\ signoff_groups = <<>>

NextGroups ==
    \/ \E row \in RawRows : AddGroupRow(row)
    \/ \E include \in SUBSET GroupArches : GetGroupInfo(include)

SpecGroups == InitGroups /\ [][NextGroups]_vars

\* the concrete architectures present in the input
ConcreteArches == {g[2] : g \in raw_groups} \ {"any"}

\* the returned entries of group n in architecture a
Returned(n, a) == {e \in Range(groups) : e.name = n /\ e.arch = a}

\* the input row of group n in architecture a, as a set (empty or a singleton)
RowsOf(n, a) == {g \in raw_groups : g[1] = n /\ g[2] = a}

Max(x, y) == IF x > y THEN x ELSE y

\* what the aggregation owes architecture X for the 'any' row g
FoldedEntry(g, X) ==
    IF RowsOf(g[1], X) = {}
    THEN [name |-> g[1], arch |-> X, count |-> g[3], last_update |-> g[4]]
    ELSE LET r == CHOOSE r \in RowsOf(g[1], X) : TRUE
         IN  [name |-> g[1], arch |-> X, count |-> g[3] + r[3],
              last_update |-> Max(g[4], r[4])]

\* the statement of C4 for the concrete architectures in Arches
AggregationHolds(Arches) ==
    /\ \A i \in 1..Len(groups) : groups[i].arch # "any"
    /\ \A g \in raw_groups : \A X \in Arches :
          /\ g[2] = "any" => Returned(g[1], X) = {FoldedEntry(g, X)}
          /\ (g[2] = X /\ RowsOf(g[1], "any") = {}) =>
                Returned(g[1], X) =
                    {[name |-> g[1], arch |-> X, count |-> g[3],
                      last_update |-> g[4]]}

\* the architectures the call returns: all of them when include_arches is
\* None or empty
IncludedArches ==
    {X \in ConcreteArches : include_arches = {} \/ X \in include_arches}

(***************************************************************************)
(* C4 (as amended): after get_group_info no returned entry has             *)
(* architecture 'any', and for every group G under 'any' with count c1 and *)
(* every concrete architecture X of the input that include_arches does not *)
(* exclude, the result holds exactly one entry (G, X), with arch X, count  *)
(* c1 + c2 and the later of the two timestamps when G existed in X with    *)
(* count c2, and count c1 and the 'any' timestamp when it did not; the     *)
(* entries of groups without an 'any' counterpart are unchanged.           *)
(***************************************************************************)
C4_Aggregation == pc = "done" => AggregationHolds(IncludedArches)

\* C4 witness: a call without a filter that both adds an 'any' count to an
\* existing group and creates the group in an architecture that lacked it
C4_Witness ==
    /\ pc = "done"
    /\ include_arches = {}
    /\ \E g \in raw_groups : \E X, Y \in ConcreteArches :
          /\ g[2] = "any"
          /\ RowsOf(g[1], X) # {}
          /\ RowsOf(g[1], Y) = {}
          /\ Returned(g[1], X) # {} /\ Returned(g[1], Y) # {}

\* C4 as stated: the same for every concrete architecture of the input,
\* whatever include_arches is
C4_Original == pc = "done" => AggregationHolds(ConcreteArches)


(***************************************************************************)
(* The package table.  A row's primary key is any value unique to the row; *)
(* the model uses the row's unique key (pkgname, repo, arch).              *)
(***************************************************************************)
MaxPkgs == 3

PkgNames == {"gcc", "gdb"}
Repos == {"core", "extra"}
Arches == {"any", "i686", "x86_64"}
\* (epoch, pkgver, pkgrel): a base version and one differing in each column
Versions == {<<0, 1, 1>>, <<1, 1, 1>>, <<0, 2, 1>>, <<0, 1, 2>>}

PackageRow(name, base, repo, arch, ver) ==
    [id |-> <<name, repo, arch>>, pkgname |-> name, pkgbase |-> base,
     repo |-> repo, arch |-> arch,
     epoch |-> ver[1], pkgver |-> ver[2], pkgrel |-> ver[3]]

DiffRows ==
    {PackageRow(n, n, r, a, v) : n \in PkgNames, r \in Repos, a \in Arches,
                                 v \in Versions}

\* a package enters the table
InsertPackage(p) ==
    /\ pc = "idle"
    /\ Cardinality(packages) < MaxPkgs
    /\ \A q \in packages : q.id # p.id
    /\ packages' = packages \cup {p}
    /\ UNCHANGED <<pc, groupVars, diffVars, signoffVars, raised, buildVars>>

(***************************************************************************)
(* get_differences_info                                                    *)
(***************************************************************************)
\* lines 89-92: the ON condition of the self join
JoinOn(p, q) ==
    /\ p.pkgname = q.pkgname
    /\ p.repo = q.repo
    /\ p.arch # q.arch
    /\ p.id # q.id

\* lines 84-104: the rows (p.id, q.id) of the query; q.id is NULL for a p
\* that no q joins
MismatchRows(table, a, b) ==
    LET left == {p \in table : p.arch \in {a, b}}
    IN  {<<p.id, q.id>> : <<p, q>> \in
            {pq \in left \X table :
                /\ JoinOn(pq[1], pq[2])
                /\ \/ pq[1].pkgver # pq[2].pkgver
                   \/ pq[1].pkgrel # pq[2].pkgrel
                   \/ pq[1].epoch # pq[2].epoch}}
        \cup {<<p.id, NullId>> : p \in
                {p \in left : \A q \in table : ~JoinOn(p, q)}}

\* the orders in which fetchall may return the rows
RECURSIVE Orders(_)
Orders(S) ==
    IF S = {} THEN {<<>>}
    ELSE UNION {{<<x>> \o s : s \in Orders(S \ {x})} : x \in S}

\* line 108: in_bulk returns the rows of the ids it finds
in_bulk(table, ids) == [i \in {p.id : p \in table} \cap ids |-> 
                          CHOOSE p \in table : p.id = i]

\* dict.get
Get(d, k) == IF k \in DOMAIN d THEN d[k] ELSE None

Difference(pkgname, repo, pkg_a, pkg_b) ==
    [pkgname |-> pkgname, repo |-> repo, pkg_a |-> pkg_a, pkg_b |-> pkg_b]

\* reading an attribute of None raises
AttributeError == [error |-> "AttributeError"]

\* lines 112-122: the Difference of one row, or the AttributeError of
\* reading an attribute of None
DifferenceOfRow(row, pkgs, a) ==
    LET pkg_a == Get(pkgs, row[1])
        pkg_b == Get(pkgs, row[2])
    IN  IF pkg_a = None THEN AttributeError
        ELSE IF pkg_a.arch = a
        THEN Difference(pkg_a.pkgname, pkg_a.repo, pkg_a, pkg_b)
        ELSE IF pkg_a # None
        THEN Difference(pkg_a.pkgname, pkg_a.repo, pkg_b, pkg_a)
        ELSE IF pkg_b = None THEN AttributeError
        ELSE Difference(pkg_b.pkgname, pkg_b.repo, pkg_b, pkg_a)

\* lines 110-124: the loop over the rows, an item appended unless the list
\* holds an equal one; the first row that raises ends the call
RECURSIVE BuildDifferences(_, _, _, _)
BuildDifferences(results, pkgs, a, acc) ==
    IF results = <<>> THEN [error |-> NoError, list |-> acc]
    ELSE LET item == DifferenceOfRow(Head(results), pkgs, a)
         IN  IF item = AttributeError
             THEN [error |-> "AttributeError", list |-> <<>>]
             ELSE BuildDifferences(Tail(results), pkgs, a,
                     IF item \in Range(acc) THEN acc ELSE Append(acc, item))

\* lines 102-128, for the rows in the order `results` and the table as it is
\* when in_bulk reads it
get_differences_info(results, fetch_table, a) ==
    LET to_fetch == {results[i][1] : i \in 1..Len(results)}
        pkgs == in_bulk(fetch_table, to_fetch)
        built == BuildDifferences(results, pkgs, a, <<>>)
    IN  [built EXCEPT !.list = Sorted(@)]

\* a call get_differences_info(a, b) for two of the non-'any' architectures;
\* the packages in `gone` are deleted by another transaction between the
\* query and in_bulk
GetDifferencesInfo(a, b, gone) ==
    /\ pc = "idle"
    /\ a # b
    /\ gone \subseteq {p \in packages : p.arch \in {a, b}}
    /\ \E results \in Orders(MismatchRows(packages, a, b)) :
          LET ret == get_differences_info(results, packages \ gone, a)
          IN  /\ differences' = ret.list
              /\ raised' = ret.error
    /\ missing' = {p.id : p \in gone}
    /\ arch_a' = a
    /\ arch_b' = b
    /\ pc' = "done"
    /\ UNCHANGED <<packages, groupVars, signoffVars, buildVars>>

InitDiff ==
    /\ pc = "idle"
    /\ packages = {}
    /\ arch_a = NoArch /\ arch_b = NoArch /\ missing = {} /\ differences = <<>>
    /\ raw_groups = {} /\ include_arches = {} /\ groups = <<>>
    /\ group = NoGroup /\ raised = NoError /\ revoked = {}
    /\ all_signoffs = NoCalls
    /\ repos = {} /\ signoff_groups = <<>>

NextDiff ==
    \/ \E p \in DiffRows : InsertPackage(p)
    \/ \E a, b \in Arches \ {"any"} : \E gone \in SUBSET packages :
          GetDifferencesInfo(a, b, gone)

SpecDiff == InitDiff /\ [][NextDiff]_vars

(***************************************************************************)
(* Signoffs and the PackageSignoffGroup                                    *)
(***************************************************************************)
MaxMembers == 2
MaxRequired == 2
MaxCands == 2

Users == {"alice", "bob"}
\* the acting-user slot before a view sets it (None)
NoUser == "nobody"
\* target_repo before get_signoff_groups sets it (None)
NoRepo == "unset"

\* a package of the table with the columns the signoff code reads
TestingRow(name, base, repo, arch, ver, last_update, packager) ==
    [id |-> <<name, repo, arch>>, pkgname |-> name, pkgbase |-> base,
     repo |-> repo, arch |-> arch,
     epoch |-> ver[1], pkgver |-> ver[2], pkgrel |-> ver[3],
     last_update |-> last_update, packager |-> packager]

\* the packages the signoff code is run on: three of one (repo, arch,
\* pkgbase), one of them at another version, the same pkgbase in another
\* architecture, in another testing repository and in a stable repository,
\* and another pkgbase
PkgPool ==
    { TestingRow("gcc", "gcc", "testing", "i686", <<0, 1, 1>>, 1, "alice"),
      TestingRow("gcc-libs", "gcc", "testing", "i686", <<0, 1, 1>>, 2, "alice"),
      TestingRow("gcc-fortran", "gcc", "testing", "i686", <<0, 2, 1>>, 3, "bob"),
      TestingRow("gcc", "gcc", "testing", "x86_64", <<0, 1, 1>>, 1, "alice"),
      TestingRow("gcc", "gcc", "community-testing", "i686", <<0, 1, 1>>, 1, "bob"),
      TestingRow("gdb", "gdb", "testing", "i686", <<0, 1, 1>>, 2, "bob"),
      TestingRow("gcc", "gcc", "core", "i686", <<0, 1, 1>>, 1, "alice") }

\* Repo.objects.filter(testing=True)
TestingRepos == {"testing", "community-testing"}
BuildRepos == {"testing", "community-testing", "core"}

Signoff(id, user, base, ver, arch, repo) ==
    [id |-> id, user |-> user, pkgbase |-> base,
     epoch |-> ver[1], pkgver |-> ver[2], pkgrel |-> ver[3],
     arch |-> arch, repo |-> repo]

\* the Signoff objects: two users' signoffs of gcc 1-1 and one of gcc 2-1,
\* all for (testing, i686); they differ from the groups of PkgPool in
\* pkgbase, version, architecture or repository
SignoffPool ==
    { Signoff(1, "alice", "gcc", <<0, 1, 1>>, "i686", "testing"),
      Signoff(2, "bob", "gcc", <<0, 1, 1>>, "i686", "testing"),
      Signoff(3, "alice", "gcc", <<0, 2, 1>>, "i686", "testing") }

\* the resolved specification: the default object or an override, with its
\* required count
SignoffSpecs == [default : BOOLEAN, required : 0..MaxRequired]

\* Package.full_version and Signoff.full_version: the (epoch, pkgver, pkgrel)
\* of the record as one value
full_version(x) == <<x.epoch, x.pkgver, x.pkgrel>>

\* the empty string self.version starts as
EmptyVersion == <<>>

\* PackageRelation maintainers of a pkgbase
Maintainers(pkgbase) == IF pkgbase = "gcc" THEN {"alice"} ELSE {}

\* s.revoked
Revoked(s) == s.id \in revoked

\* lines 153-157
RECURSIVE GoodSignoffs(_)
GoodSignoffs(signoffs) ==
    IF signoffs = {} THEN 0
    ELSE LET s == CHOOSE x \in signoffs : TRUE
         IN  (IF ~Revoked(s) THEN 1 ELSE 0) + GoodSignoffs(signoffs \ {s})

\* approved_by_signoffs without the test of line 154
approved_by_signoffs_NoEmptyTest(signoffs, spec) ==
    GoodSignoffs(signoffs) >= spec.required

\* lines 153-157
approved_by_signoffs(signoffs, spec) ==
    IF signoffs # {}
    THEN GoodSignoffs(signoffs) >= spec.required
    ELSE FALSE

\* PackageSignoffGroup.__init__ without the test of lines 162-163: the first
\* four attributes are set, then packages[0] raises IndexError
PackageSignoffGroup_NoLenTest(pkgs, specification) ==
    IF Len(pkgs) = 0
    THEN [error |-> "IndexError",
          object |-> [constructed |-> FALSE, packages |-> pkgs,
                      user |-> NoUser, target_repo |-> NoRepo, signoffs |-> {}]]
    ELSE [error |-> NoError,
          object |-> [constructed |-> TRUE, packages |-> pkgs, user |-> NoUser,
                      target_repo |-> NoRepo, signoffs |-> {},
                      pkgbase |-> pkgs[1].pkgbase, arch |-> pkgs[1].arch,
                      repo |-> pkgs[1].repo,
                      version |->
                          IF \A i \in 1..Len(pkgs) :
                                full_version(pkgs[1]) = full_version(pkgs[i])
                          THEN full_version(pkgs[1]) ELSE EmptyVersion,
                      last_update |-> pkgs[1].last_update,
                      packager |-> pkgs[1].packager,
                      maintainers |-> Maintainers(pkgs[1].pkgbase),
                      specification |-> specification,
                      default_spec |-> specification.default]]

\* lines 161-186: the constructor, for the specification that
\* get_or_default_from_package resolves; the exception it raises and the
\* object with the attributes set by then
PackageSignoffGroup(pkgs, specification) ==
    IF Len(pkgs) = 0
    THEN [error |-> "Exception", object |-> NoGroup]
    ELSE LET first == pkgs[1]
             version == full_version(first)
         IN  [error |-> NoError,
              object |->
                [constructed |-> TRUE, packages |-> pkgs, user |-> NoUser,
                 target_repo |-> NoRepo, signoffs |-> {},
                 pkgbase |-> first.pkgbase, arch |-> first.arch,
                 repo |-> first.repo,
                 version |->
                     IF \A i \in 1..Len(pkgs) : version = full_version(pkgs[i])
                     THEN version ELSE EmptyVersion,
                 last_update |-> first.last_update,
                 packager |-> first.packager,
                 maintainers |-> Maintainers(first.pkgbase),
                 specification |-> specification,
                 default_spec |-> specification.default]]

\* find_signoffs storing the matches of this call only (line 212 assigning
\* a new set)
find_signoffs_Replace(g, signoffs) ==
    [g EXCEPT !.signoffs =
        {s \in signoffs :
            /\ s.pkgbase = g.pkgbase
            /\ (g.version # EmptyVersion => full_version(s) = g.version)
            /\ s.arch = g.arch /\ s.repo = g.repo}]

\* find_signoffs with line 209 comparing the version of every group
find_signoffs_AlwaysVersion(g, signoffs) ==
    [g EXCEPT !.signoffs = @ \cup
        {s \in signoffs :
            /\ s.pkgbase = g.pkgbase
            /\ full_version(s) = g.version
            /\ s.arch = g.arch /\ s.repo = g.repo}]

\* lines 203-212
find_signoffs(g, signoffs) ==
    [g EXCEPT !.signoffs = @ \cup
        {s \in signoffs :
            /\ ~(s.pkgbase # g.pkgbase)
            /\ ~(g.version # EmptyVersion /\ ~(full_version(s) = g.version))
            /\ s.arch = g.arch /\ s.repo = g.repo}]

\* lines 214-215
approved(g) == approved_by_signoffs(g.signoffs, g.specification)

\* lines 217-219
completed(g) == GoodSignoffs(g.signoffs)

\* lines 221-223
required(g) == g.specification.required

\* user_signed_off reading the users of all the attached signoffs
user_signed_off_AnySignoff(g, user) ==
    LET u == IF user = NoUser THEN g.user ELSE user
    IN  u \in {s.user : s \in g.signoffs}

\* lines 225-231; NoUser is the default argument None
user_signed_off(g, user) ==
    LET u == IF user = NoUser THEN g.user ELSE user
    IN  u \in {s.user : s \in {x \in g.signoffs : ~Revoked(x)}}

\* the lists of at most n packages of one (repo, arch, pkgbase), without
\* repetition: what a caller hands the constructor
RECURSIVE ListsOf(_, _)
ListsOf(S, n) ==
    IF n = 0 THEN {<<>>}
    ELSE ListsOf(S, n - 1) \cup
         {Append(l, x) : <<l, x>> \in
            {lx \in ListsOf(S, n - 1) \X S :
                /\ lx[2] \notin Range(lx[1])
                /\ \A i \in 1..Len(lx[1]) :
                      /\ lx[1][i].repo = lx[2].repo
                      /\ lx[1][i].arch = lx[2].arch
                      /\ lx[1][i].pkgbase = lx[2].pkgbase}}

MemberLists == ListsOf(PkgPool, MaxMembers)

Candidates == {S \in SUBSET SignoffPool : Cardinality(S) <= MaxCands}

\* PackageSignoffGroup(pkgs)
Construct(pkgs, specification) ==
    /\ pc = "idle"
    /\ LET made == PackageSignoffGroup(pkgs, specification)
       IN  /\ group' = made.object
           /\ raised' = made.error
           /\ pc' = IF made.error = NoError THEN "constructed" ELSE "raised"
    /\ UNCHANGED <<packages, revoked, all_signoffs, groupVars, diffVars,
                   buildVars>>

\* group.find_signoffs(signoffs); all_signoffs keeps the argument of the
\* latest call and whether it was the first
FindSignoffs(signoffs) ==
    /\ pc = "constructed"
    /\ group' = find_signoffs(group, signoffs)
    /\ all_signoffs' =
          [calls |-> IF all_signoffs.calls = "none" THEN "one" ELSE "many",
           signoffs |-> signoffs]
    /\ UNCHANGED <<pc, packages, raised, revoked, groupVars, diffVars,
                   buildVars>>

\* a Signoff object's revoked flag is set
Revoke(s) ==
    /\ s.id \notin revoked
    /\ revoked' = revoked \cup {s.id}
    /\ UNCHANGED <<pc, packages, raised, group, all_signoffs, groupVars,
                   diffVars, buildVars>>

\* a view stores the acting user: group.user = request.user
SetUser(u) ==
    /\ pc = "constructed"
    /\ group.user # u
    /\ group' = [group EXCEPT !.user = u]
    /\ UNCHANGED <<pc, packages, raised, revoked, all_signoffs, groupVars,
                   diffVars, buildVars>>

InitSignoff ==
    /\ pc = "idle"
    /\ group = NoGroup /\ raised = NoError /\ revoked = {}
    /\ all_signoffs = NoCalls
    /\ packages = {}
    /\ arch_a = NoArch /\ arch_b = NoArch /\ missing = {} /\ differences = <<>>
    /\ raw_groups = {} /\ include_arches = {} /\ groups = <<>>
    /\ repos = {} /\ signoff_groups = <<>>

NextSignoff ==
    \/ \E pkgs \in MemberLists : \E spec \in SignoffSpecs : Construct(pkgs, spec)
    \/ \E S \in Candidates : FindSignoffs(S)
    \/ \E s \in SignoffPool : Revoke(s)
    \/ \E u \in Users : SetUser(u)

SpecSignoff == InitSignoff /\ [][NextSignoff]_vars

(***************************************************************************)
(* get_signoff_groups                                                      *)
(***************************************************************************)
PkgBases == {p.pkgbase : p \in PkgPool}

\* line 285
same_pkgbase_key(x) == <<x.repo, x.arch, x.pkgbase>>

\* main.utils.groupby_preserve_order: the list is cut into its runs of
\* consecutive items with the same key, in the order of the list
RECURSIVE groupby_preserve_order(_)
groupby_preserve_order(items) ==
    IF items = <<>> THEN <<>>
    ELSE LET n == Len(items)
             before == groupby_preserve_order(SubSeq(items, 1, n - 1))
             m == Len(before)
         IN  IF /\ m > 0
                /\ same_pkgbase_key(before[m][1]) = same_pkgbase_key(items[n])
             THEN [before EXCEPT ![m] = Append(@, items[n])]
             ELSE Append(before, <<items[n]>>)

\* line 276: the orders order_by('pkgname') may give the packages
NameOrders(S) ==
    {s \in Orders(S) :
        \A i \in 1..(Len(s) - 1) : Rank(s[i].pkgname) <= Rank(s[i + 1].pkgname)}

\* lines 263-267: the dicts dict(package_repos) may be, of the distinct
\* (pkgbase, repo name) pairs of the packages with one of the pkgbases: a
\* pkgbase in several repositories keeps the pair the query gives last
get_target_repo_map(table, pkgbases) ==
    LET bases == {p.pkgbase : p \in table} \cap pkgbases
    IN  {m \in [bases -> BuildRepos] :
            \A b \in bases : \E p \in table : p.pkgbase = b /\ p.repo = m[b]}

\* lines 237-261: the signoffs that join a package of the repositories
get_current_signoffs(table, rs) ==
    {s \in SignoffPool :
        \E p \in table :
            /\ s.pkgbase = p.pkgbase
            /\ s.pkgver = p.pkgver
            /\ s.pkgrel = p.pkgrel
            /\ s.epoch = p.epoch
            /\ s.arch = p.arch
            /\ s.repo = p.repo
            /\ p.repo \in rs}

\* lines 288-293 for one group of packages
SignoffGroupOf(grp, spec_of, pkgtorepo, signoffs) ==
    LET made == PackageSignoffGroup(grp, spec_of[grp[1].pkgbase])
        signoff_group == made.object
        target_repo == IF signoff_group.pkgbase \in DOMAIN pkgtorepo
                       THEN pkgtorepo[signoff_group.pkgbase] ELSE "Unknown"
    IN  IF made.error # NoError THEN made
        ELSE [made EXCEPT !.object =
                find_signoffs(
                    [signoff_group EXCEPT !.target_repo = target_repo],
                    signoffs)]

\* lines 269-295, for the order `ordered` of the packages, the target
\* repository map and the specification get_or_default_from_package
\* resolves for each pkgbase
get_signoff_groups(table, rs, ordered, pkgtorepo, spec_of) ==
    LET signoffs == get_current_signoffs(table, rs)
        grouped == groupby_preserve_order(ordered)
        made == [i \in 1..Len(grouped) |->
                    SignoffGroupOf(grouped[i], spec_of, pkgtorepo, signoffs)]
    IN  IF \E i \in 1..Len(made) : made[i].error # NoError
        THEN [error |-> "Exception", list |-> <<>>]
        ELSE [error |-> NoError,
              list |-> [i \in 1..Len(made) |-> made[i].object]]

\* the repositories of a call: the testing ones when the argument is None
ReposOf(arg) == IF arg = {} THEN TestingRepos ELSE arg

\* the packages of the repositories of the call (line 274)
TestPkgs(arg) == {p \in packages : p.repo \in ReposOf(arg)}

\* a call get_signoff_groups(repos)
GetSignoffGroups(arg) ==
    /\ pc = "idle"
    /\ \E ordered \in NameOrders(TestPkgs(arg)) :
       \E pkgtorepo \in
            get_target_repo_map(packages, {p.pkgbase : p \in TestPkgs(arg)}) :
       \E spec_of \in [PkgBases -> SignoffSpecs] :
          LET ret == get_signoff_groups(packages, ReposOf(arg), ordered,
                                        pkgtorepo, spec_of)
          IN  /\ signoff_groups' = ret.list
              /\ raised' = ret.error
    /\ repos' = arg
    /\ pc' = "done"
    /\ UNCHANGED <<packages, groupVars, diffVars, signoffVars>>

InitBuild ==
    /\ pc = "idle"
    /\ packages = {}
    /\ repos = {} /\ signoff_groups = <<>>
    /\ group = NoGroup /\ raised = NoError /\ revoked = {}
    /\ all_signoffs = NoCalls
    /\ arch_a = NoArch /\ arch_b = NoArch /\ missing = {} /\ differences = <<>>
    /\ raw_groups = {} /\ include_arches = {} /\ groups = <<>>

NextBuild ==
    \/ \E p \in PkgPool : InsertPackage(p)
    \/ \E pkgs \in MemberLists : \E spec \in SignoffSpecs : Construct(pkgs, spec)
    \/ \E arg \in SUBSET BuildRepos : GetSignoffGroups(arg)

SpecBuild == InitBuild /\ [][NextBuild]_vars

\* the positions of the returned groups that hold package p
GroupsHolding(p) ==
    {i \in 1..Len(signoff_groups) : p \in Range(signoff_groups[i].packages)}

\* the positions of the returned groups of one (repo, arch, pkgbase)
GroupsOfKey(k) ==
    {i \in 1..Len(signoff_groups) :
        <<signoff_groups[i].repo, signoff_groups[i].arch,
          signoff_groups[i].pkgbase>> = k}

(***************************************************************************)
(* C6: get_signoff_groups returns exactly one group per (repo, arch,       *)
(* pkgbase) of the fetched packages, whatever the order of the name-sorted *)
(* list: every fetched package is in exactly one group, packages of one    *)
(* (repo, arch, pkgbase) are in the same group and packages that differ in *)
(* one of the three are in different groups.                               *)
(***************************************************************************)
C6_OneGroupPerKey ==
    (pc = "done" /\ raised = NoError) =>
        /\ \A p \in TestPkgs(repos) :
              /\ Cardinality(GroupsHolding(p)) = 1
              /\ Cardinality(GroupsOfKey(same_pkgbase_key(p))) = 1
        /\ \A p, q \in TestPkgs(repos) :
              (same_pkgbase_key(p) = same_pkgbase_key(q)) <=>
                  (GroupsHolding(p) = GroupsHolding(q))
        /\ \A i \in 1..Len(signoff_groups) :
              Range(signoff_groups[i].packages) \subseteq TestPkgs(repos)

(***************************************************************************)
(* C8: the constructor fails on an empty package list before it sets any   *)
(* attribute, so no group without members exists: neither the group a      *)
(* caller constructs nor any group get_signoff_groups returns.             *)
(***************************************************************************)
C8_NoEmptyGroup ==
    /\ pc = "raised" => (raised = "Exception" /\ group = NoGroup)
    /\ pc = "constructed" => (group.constructed /\ Len(group.packages) >= 1)
    /\ pc = "done" =>
          /\ raised = NoError
          /\ \A i \in 1..Len(signoff_groups) :
                /\ signoff_groups[i].constructed
                /\ Len(signoff_groups[i].packages) >= 1

\* C8 witness: the constructor has been given the empty list and has raised
C8_Witness == pc = "raised" /\ raised = "Exception" /\ group = NoGroup

\* the attached signoffs whose revoked flag is not set
NotRevoked(S) == {s \in S : s.id \notin revoked}

(***************************************************************************)
(* C1: for every set S of signoff records and every specification,         *)
(* approved_by_signoffs(S, spec) is true exactly when S is not empty and   *)
(* at least spec.required of its records are not revoked (so the empty set *)
(* is not approved even when required is 0); approved() of a group is that *)
(* answer for its attached signoffs and its specification.                 *)
(***************************************************************************)
C1_Quorum ==
    /\ \A S \in SUBSET SignoffPool : \A spec \in SignoffSpecs :
          approved_by_signoffs(S, spec) <=>
              (S # {} /\ Cardinality(NotRevoked(S)) >= spec.required)
    /\ pc = "constructed" =>
          (approved(group) <=>
              /\ group.signoffs # {}
              /\ Cardinality(NotRevoked(group.signoffs)) >=
                    group.specification.required)

\* C1 witness: a group that requires 0 signoffs, has had find_signoffs run
\* and holds none, and is not approved
C1_Witness ==
    /\ pc = "constructed"
    /\ all_signoffs.calls # "none"
    /\ group.specification.required = 0
    /\ group.signoffs = {}
    /\ ~approved(group)

\* the full versions of the members of the group
MemberVersions == {full_version(group.packages[i]) : i \in 1..Len(group.packages)}

(***************************************************************************)
(* C5: after the first find_signoffs(all_signoffs) on a group its signoff  *)
(* set is exactly the records of all_signoffs with the group's pkgbase,    *)
(* arch and repo and, when group.version is not empty, the group's         *)
(* version; group.version is the members' common full version when they    *)
(* share one and empty otherwise.                                          *)
(***************************************************************************)
C5_FindSignoffs ==
    pc = "constructed" =>
        /\ Cardinality(MemberVersions) = 1 => group.version \in MemberVersions
        /\ Cardinality(MemberVersions) > 1 => group.version = EmptyVersion
        /\ all_signoffs.calls = "one" =>
              group.signoffs =
                {s \in all_signoffs.signoffs :
                    /\ s.pkgbase = group.pkgbase
                    /\ s.arch = group.arch
                    /\ s.repo = group.repo
                    /\ group.version # EmptyVersion =>
                          full_version(s) = group.version}

\* C5 witness: a mixed-version group whose first find_signoffs attached
\* signoffs of two versions
C5_Witness ==
    /\ pc = "constructed"
    /\ all_signoffs.calls = "one"
    /\ group.version = EmptyVersion
    /\ \E s, u \in group.signoffs : full_version(s) # full_version(u)

(***************************************************************************)
(* C9: user_signed_off(u) is true exactly when an attached signoff that is *)
(* not revoked has user u; without an argument it answers for the user in  *)
(* the group's acting-user slot; completed is the number of attached       *)
(* signoffs that are not revoked.                                          *)
(***************************************************************************)
C9_UserSignedOff ==
    pc = "constructed" =>
        /\ \A u \in Users :
              user_signed_off(group, u) <=>
                  \E s \in group.signoffs : s.id \notin revoked /\ s.user = u
        /\ user_signed_off(group, NoUser) <=>
              \E s \in group.signoffs : s.id \notin revoked /\ s.user = group.user
        /\ completed(group) = Cardinality(NotRevoked(group.signoffs))

\* C9 witness: the acting user's only attached signoff is revoked, another
\* user's is not
C9_Witness ==
    /\ pc = "constructed"
    /\ group.user \in Users
    /\ \E s \in group.signoffs : s.user = group.user
    /\ \A s \in group.signoffs : s.user = group.user => s.id \in revoked
    /\ completed(group) = 1
    /\ ~user_signed_off(group, NoUser)

\* the parts of C10 that every state satisfies; the last one for the groups
\* that require at least `least` signoffs
C10_States(least) ==
    pc = "constructed" =>
        /\ \A S \in Candidates :
              find_signoffs(find_signoffs(group, S), S) = find_signoffs(group, S)
        /\ (NotRevoked(group.signoffs) = {} /\ required(group) >= least) =>
              ~approved(group)

\* the parts of C10 that every step on a group satisfies
C10_Steps ==
    (pc = "constructed" /\ pc' = "constructed") =>
        /\ group.signoffs \subseteq group'.signoffs
        /\ (revoked' # revoked) => (approved(group)' => approved(group))
        /\ (group'.signoffs # group.signoffs) =>
              (approved(group) => approved(group)')

(***************************************************************************)
(* C10 (as amended): over any sequence of find_signoffs calls and          *)
(* revocations on one group the attached set only grows, a repeated        *)
(* find_signoffs with the same candidates changes nothing, a revocation    *)
(* never turns approved() from false to true, attaching signoffs never     *)
(* turns it from true to false, and a group all of whose attached signoffs *)
(* are revoked is not approved when its specification requires at least    *)
(* one signoff.                                                            *)
(***************************************************************************)
C10_Monotone == [](C10_States(1)) /\ [][C10_Steps]_vars

\* C10 witness: a group that requires signoffs, holds some after several
\* find_signoffs calls, all of them revoked, and is not approved
C10_Witness ==
    /\ pc = "constructed"
    /\ all_signoffs.calls = "many"
    /\ required(group) >= 1
    /\ Cardinality(group.signoffs) >= 2
    /\ NotRevoked(group.signoffs) = {}
    /\ ~approved(group)

\* C10 as stated: the last part for every group, also one that requires 0
C10_Original == [](C10_States(0)) /\ [][C10_Steps]_vars

\* the positions of the returned Differences for (pkgname, repo)
DifferencesFor(n, r) ==
    {i \in 1..Len(differences) :
        differences[i].pkgname = n /\ differences[i].repo = r}

SameVersion(p, q) ==
    p.epoch = q.epoch /\ p.pkgver = q.pkgver /\ p.pkgrel = q.pkgrel

\* a call that returned, with every record fetched
Returned_AllFetched == pc = "done" /\ raised = NoError /\ missing = {}

\* the packages of the table with p's name and repository in architecture a
Counterparts(p, a) ==
    {q \in packages : q.pkgname = p.pkgname /\ q.repo = p.repo /\ q.arch = a}

(***************************************************************************)
(* C2: whatever the table holds, for a package name N in repository R with *)
(* a package P in arch_a and a package Q in arch_b, get_differences_info   *)
(* reports no Difference for (N, R) when P and Q have the same (epoch,     *)
(* version, release) and exactly one when they differ, with pkg_a = P and  *)
(* pkg_b = Q (both argument orders are calls of the model).                *)
(***************************************************************************)
C2_OneDivergence ==
    Returned_AllFetched =>
        \A P, Q \in packages :
            (P.arch = arch_a /\ Q \in Counterparts(P, arch_b)) =>
                IF SameVersion(P, Q)
                THEN DifferencesFor(P.pkgname, P.repo) = {}
                ELSE /\ Cardinality(DifferencesFor(P.pkgname, P.repo)) = 1
                     /\ \A i \in DifferencesFor(P.pkgname, P.repo) :
                           differences[i].pkg_a = P /\ differences[i].pkg_b = Q

(***************************************************************************)
(* C3: a package P of arch_a or arch_b without a package of its name and   *)
(* repository in the other of the two architectures is reported by exactly *)
(* one Difference for (P.pkgname, P.repo), which holds P on the side of    *)
(* its architecture and None on the other side.                            *)
(***************************************************************************)
C3_MissingCounterpart ==
    Returned_AllFetched =>
        \A P \in packages :
            /\ (P.arch = arch_a /\ Counterparts(P, arch_b) = {}) =>
                  /\ Cardinality(DifferencesFor(P.pkgname, P.repo)) = 1
                  /\ \A i \in DifferencesFor(P.pkgname, P.repo) :
                        differences[i].pkg_a = P /\ differences[i].pkg_b = None
            /\ (P.arch = arch_b /\ Counterparts(P, arch_a) = {}) =>
                  /\ Cardinality(DifferencesFor(P.pkgname, P.repo)) = 1
                  /\ \A i \in DifferencesFor(P.pkgname, P.repo) :
                        differences[i].pkg_a = None /\ differences[i].pkg_b = P

\* the rows of the call's query (the table does not change after the query
\* in the model's record of it; `missing` are the ids in_bulk did not find)
QueryRows == MismatchRows(packages, arch_a, arch_b)

\* in_bulk fetches the first column only, so a second id resolves when it is
\* also some row's first id
Resolves(id) ==
    /\ id \in {row[1] : row \in QueryRows}
    /\ id \notin missing

(***************************************************************************)
(* C7: a row one side of which could not be fetched still yields a         *)
(* Difference, the other side resolving; the call fails only when some row *)
(* has neither side resolving.                                             *)
(***************************************************************************)
C7_AbsentSideTolerated ==
    pc = "done" =>
        (raised # NoError <=>
            \E row \in QueryRows : ~Resolves(row[1]) /\ ~Resolves(row[2]))

\* the table holds packages of arch_a and arch_b only
TwoArchesOnly == \A p \in packages : p.arch \in {arch_a, arch_b}

\* C2 and C3 hold of the calls on a table without a third architecture
DiffLemma_TwoArches ==
    TwoArchesOnly => C2_OneDivergence /\ C3_MissingCounterpart

\* C7 holds of the calls in which every first id resolves
DiffLemma_FirstResolves ==
    (pc = "done" /\ missing = {}) => raised = NoError

====
